---- MODULE Spec2Model ----
(***************************************************************************)
(* Tessellation control shader state upload of the i965 driver             *)
(* (src/mesa/drivers/dri/i965/brw_tcs.c): key derivation, the program      *)
(* cache lookup / compile / install sequence, and the link-time precompile.*)
(*                                                                         *)
(* Bitfields (outputs_written, inputs_read, ...) are modelled as the set   *)
(* of their set bits, so that bitwise or is set union.  Pointers into the  *)
(* program cache are modelled as the index of the cache item pointed to,   *)
(* with 0 for NULL.                                                        *)
(***************************************************************************)
EXTENDS Integers, Sequences, FiniteSets, TLC

(* ------------------------------ bounds -------------------------------- *)
MaxSlot == 0
MaxPatchVertices == 2
MaxProgId == 1
MaxOps == 4

(* ------------------- constants of headers outside src/ ---------------- *)
GL_TRIANGLES == 4
GL_QUADS == 7
GL_ISOLINES == 36474
BRW_PARAM_BUILTIN_ZERO == 0
BRW_PARAM_BUILTIN_TESS_LEVEL_OUTER_X == 33
BRW_PARAM_BUILTIN_TESS_LEVEL_OUTER_Y == 34
BRW_PARAM_BUILTIN_TESS_LEVEL_OUTER_Z == 35
BRW_PARAM_BUILTIN_TESS_LEVEL_OUTER_W == 36
BRW_PARAM_BUILTIN_TESS_LEVEL_INNER_X == 37
BRW_PARAM_BUILTIN_TESS_LEVEL_INNER_Y == 38

Gens == {7, 8, 9}
PrimitiveModes == {GL_QUADS, GL_TRIANGLES, GL_ISOLINES}
TessSpacings == {"TESS_SPACING_EQUAL", "TESS_SPACING_FRACTIONAL_ODD"}
Slots == 0..MaxSlot
SlotMasks == SUBSET Slots
(* Sampler key values: 0 is the all-zero key left by memset, 1 the key of  *)
(* default (no-op) swizzles, 2 a key of non-default texture state.         *)
TexZero == 0
TexDefault == 1
TexStates == {1, 2}

NULL == [id |-> 0]

(* Linked tessellation control programs (struct brw_program + gl_program). *)
TcsPrograms ==
  [id : 1..MaxProgId, outputs_written : SlotMasks,
   patch_outputs_written : SlotMasks,
   tcs_vertices_out : 1..MaxPatchVertices]

(* Linked tessellation evaluation programs. *)
TesPrograms ==
  [inputs_read : SlotMasks, patch_inputs_read : SlotMasks,
   primitive_mode : PrimitiveModes, spacing : TessSpacings]

VARIABLES
  gen,               \* devinfo->gen
  perf_debug,        \* brw->perf_debug
  patch_vertices,    \* brw->ctx.TessCtrlProgram.patch_vertices
  tex_state,         \* context texture state read by the sampler key
  tcp,               \* brw->programs[MESA_SHADER_TESS_CTRL], or NULL
  tep,               \* brw->programs[MESA_SHADER_TESS_EVAL], or NULL
  link,              \* tep->program.sh.data: LinkStatus, InfoLog
  NewGLState,        \* brw->NewGLState
  NewDriverState,    \* brw->ctx.NewDriverState
  cache,             \* brw->cache, TCS items, oldest first
  prog_offset,       \* brw->tcs.base.prog_offset
  prog_data,         \* brw->tcs.base.prog_data
  per_thread_scratch,\* brw->tcs.base.per_thread_scratch
  compiled_once,     \* ids of the TCS programs with compiled_once set
  last,              \* record of the last handler that ran
  keyA, keyB,        \* two key buffers filled from the same context
  dkey,              \* key buffer filled by brw_tcs_populate_default_key
  tes_linked,        \* sh_prog->_LinkedShaders[MESA_SHADER_TESS_EVAL] != NULL
  kpc,               \* position of the key-derivation run
  steps              \* handlers and state changes run so far

vars == <<gen, perf_debug, patch_vertices, tex_state, tcp, tep, link,
          NewGLState, NewDriverState, cache, prog_offset, prog_data,
          per_thread_scratch, compiled_once, last, keyA, keyB, dkey,
          tes_linked, kpc, steps>>

(* ----------------------- struct brw_tcs_prog_key ---------------------- *)
(* pad stands for   the bytes of the struct no assignment writes (padding):*)
(* only memset gives them a value.                                         *)
ZeroKey ==
  [program_string_id |-> 0, input_vertices |-> 0, outputs_written |-> {},
   patch_outputs_written |-> {}, tes_primitive_mode |-> 0,
   quads_workaround |-> FALSE, tex |-> TexZero, pad |-> 0]

(* Contents an uninitialised key buffer may hold before it is populated. *)
GarbageKeyA ==
  [program_string_id |-> 99, input_vertices |-> 31, outputs_written |-> Slots,
   patch_outputs_written |-> Slots, tes_primitive_mode |-> GL_QUADS,
   quads_workaround |-> TRUE, tex |-> 2, pad |-> 170]

GarbageKeyB == ZeroKey

GarbageKeys == {GarbageKeyA, GarbageKeyB}

memset_key_missing(key) == key

(* memset of the whole key struct to 0 *)
memset_key(key) == ZeroKey

(* brw_populate_sampler_prog_key_data: the sampler key of the context's    *)
(* texture state for the samplers of prog.                                 *)
brw_populate_sampler_prog_key_data(ctx_tex, prog) == ctx_tex

(* brw_setup_tex_for_precompile: the sampler key of default swizzles. *)
brw_setup_tex_for_precompile(devgen, prog) == TexDefault

(* per_vertex_slots = tes_prog->info.inputs_read, |= the TCS's outputs. *)
per_vertex_slots(tcpv, tepv) ==
  tepv.inputs_read \cup (IF tcpv # NULL THEN tcpv.outputs_written ELSE {})

(* per_patch_slots = tes_prog->info.patch_inputs_read, |= the TCS's. *)
per_patch_slots(tcpv, tepv) ==
  tepv.patch_inputs_read \cup
    (IF tcpv # NULL THEN tcpv.patch_outputs_written ELSE {})

input_vertices_gen_only(devgen, pv, tcpv) ==
  IF devgen < 8 THEN pv ELSE 0

(* if (devinfo->gen < 8 || !tcp) key->input_vertices = patch_vertices *)
key_input_vertices(devgen, pv, tcpv) ==
  IF devgen < 8 \/ tcpv = NULL THEN pv ELSE 0

quads_workaround_any_spacing(devgen, mode, spacing) ==
  devgen < 9 /\ mode = GL_QUADS

(* gen < 9 && primitive_mode == GL_QUADS && spacing == TESS_SPACING_EQUAL *)
quads_workaround(devgen, mode, spacing) ==
  devgen < 9 /\ mode = GL_QUADS /\ spacing = "TESS_SPACING_EQUAL"

(* brw_tcs_populate_key: the key of the draw-time context state, written   *)
(* into the buffer key.                                                    *)
brw_tcs_populate_key(devgen, pv, ctx_tex, tcpv, tepv, key) ==
  LET k0 == memset_key(key)
  IN [k0 EXCEPT
        !.input_vertices = key_input_vertices(devgen, pv, tcpv),
        !.outputs_written = per_vertex_slots(tcpv, tepv),
        !.patch_outputs_written = per_patch_slots(tcpv, tepv),
        !.tes_primitive_mode = tepv.primitive_mode,
        !.quads_workaround =
           quads_workaround(devgen, tepv.primitive_mode, tepv.spacing),
        !.program_string_id = IF tcpv # NULL THEN tcpv.id ELSE @,
        !.tex = IF tcpv # NULL
                THEN brw_populate_sampler_prog_key_data(ctx_tex, tcpv)
                ELSE @]

(* brw_tcs_populate_default_key: the key guessed at link time for the TCS  *)
(* prog; tes is the linked TES program or NULL.                            *)
brw_tcs_populate_default_key(devgen, prog, tes, key) ==
  LET k0 == memset_key(key)
  IN [k0 EXCEPT
        !.program_string_id = prog.id,
        !.tex = brw_setup_tex_for_precompile(devgen, prog),
        !.input_vertices = IF devgen < 8 THEN prog.tcs_vertices_out ELSE @,
        !.tes_primitive_mode = IF tes # NULL THEN tes.primitive_mode
                               ELSE GL_TRIANGLES,
        !.quads_workaround =
           IF tes # NULL
           THEN quads_workaround(devgen, tes.primitive_mode, tes.spacing)
           ELSE @,
        !.outputs_written = prog.outputs_written,
        !.patch_outputs_written = prog.patch_outputs_written]

(* --------------------------- program cache ---------------------------- *)
(* A cache item holds the key, the offset of the program in the cache      *)
(* buffer and the prog_data stored with it (aux).                          *)

(* brw_search_cache: the newest item stored under key, 0 when none. *)
brw_search_cache(cachev, key) ==
  LET hits == {i \in 1..Len(cachev) : cachev[i].key = key}
  IN IF hits = {} THEN 0 ELSE CHOOSE i \in hits : \A j \in hits : j <= i

(* Out-parameters of a brw_search_cache hit on item i: prog_offset and     *)
(* prog_data are written, and the stage's prog-data bit is flagged when    *)
(* they changed.                                                           *)
search_hit(d, i) ==
  [d EXCEPT !.prog_offset = d.cache[i].offset,
            !.prog_data = i,
            !.NewDriverState =
               IF d.cache[i].offset # d.prog_offset \/ i # d.prog_data
               THEN @ \cup {"BRW_NEW_TCS_PROG_DATA"} ELSE @,
            !.mem = "hit"]

(* brw_upload_cache: a new item under key; its offset and prog_data are    *)
(* written to the stage state.                                             *)
brw_upload_cache(d, key, aux) ==
  [d EXCEPT !.cache = Append(@, [key |-> key, offset |-> Len(@), aux |-> aux]),
            !.prog_offset = Len(d.cache),
            !.prog_data = Len(d.cache) + 1,
            !.NewDriverState = @ \cup {"BRW_NEW_TCS_PROG_DATA"}]

(* brw_alloc_stage_scratch: the stage's scratch space only grows. *)
brw_alloc_stage_scratch(d, size) ==
  [d EXCEPT !.per_thread_scratch = IF @ < size THEN size ELSE @]

(* Outcomes of brw_compile_tcs: failure or a program. *)
CompileOutcomes == [ok : BOOLEAN]

(* prog_data.base.base.total_scratch of the compiled program: the compiler *)
(* is deterministic; here a user TCS spills registers and the passthrough  *)
(* TCS does not.                                                           *)
compile_total_scratch(tcpv) == IF tcpv = NULL THEN 0 ELSE 1

(* ------------------------ brw_codegen_tcs_prog ------------------------ *)
NoParams == [nr_params |-> 0, param |-> <<>>]

outer_levels_ascending(param, n) ==
  [j \in 0..7 |-> IF j - 4 \in 0..(n - 1)
                  THEN BRW_PARAM_BUILTIN_TESS_LEVEL_OUTER_X + (j - 4)
                  ELSE param[j]]

(* for (i = 0; i < n; i++) param[7 - i] = TESS_LEVEL_OUTER_X + i *)
outer_levels(param, n) ==
  [j \in 0..7 |-> IF 7 - j \in 0..(n - 1)
                  THEN BRW_PARAM_BUILTIN_TESS_LEVEL_OUTER_X + (7 - j)
                  ELSE param[j]]

(* The Patch URB Header params of the passthrough TCS. *)
passthrough_params(mode) ==
  LET zero == [j \in 0..7 |-> BRW_PARAM_BUILTIN_ZERO]
  IN IF mode = GL_QUADS
     THEN [outer_levels(zero, 4) EXCEPT
             ![3] = BRW_PARAM_BUILTIN_TESS_LEVEL_INNER_X,
             ![2] = BRW_PARAM_BUILTIN_TESS_LEVEL_INNER_Y]
     ELSE IF mode = GL_TRIANGLES
     THEN [outer_levels(zero, 3) EXCEPT
             ![4] = BRW_PARAM_BUILTIN_TESS_LEVEL_INNER_X]
     ELSE [zero EXCEPT ![7] = BRW_PARAM_BUILTIN_TESS_LEVEL_OUTER_Y,
                       ![6] = BRW_PARAM_BUILTIN_TESS_LEVEL_OUTER_X]

(* Lines 85-133: the memory context, the shader and prog_data.params.     *)
(* The shader-time index and the GPU-stall timing of lines 135-142 and     *)
(* 169-172 only feed diagnostics and are left out.                         *)
codegen_setup(d, tcpv, key) ==
  IF tcpv # NULL
  THEN [d EXCEPT !.calls = @ \o <<"ralloc_context",
                                  "brw_nir_setup_glsl_uniforms">>,
                 !.params = NoParams]
  ELSE [d EXCEPT !.calls = @ \o <<"ralloc_context",
                                  "brw_nir_create_passthrough_tcs">>,
                 !.params = [nr_params |-> 8,
                             param |-> passthrough_params(
                                          key.tes_primitive_mode)],
                 !.mode_assert_ok =
                    @ /\ (key.tes_primitive_mode \in
                            {GL_QUADS, GL_TRIANGLES, GL_ISOLINES})]

codegen_failure_leaks(d, tepv) ==
  [d EXCEPT
     !.link = IF tepv # NULL
              THEN [@ EXCEPT ![tepv] =
                      [LinkStatus |-> "LINKING_FAILURE",
                       InfoLog |-> Append(@.InfoLog, "error_str")]]
              ELSE @,
     !.calls = @ \o <<"brw_compile_tcs", "_mesa_problem">>,
     !.success = FALSE]

(* Lines 148-159: brw_compile_tcs returned NULL. *)
codegen_failure(d, tepv) ==
  [d EXCEPT
     !.link = IF tepv # NULL
              THEN [@ EXCEPT ![tepv] =
                      [LinkStatus |-> "LINKING_FAILURE",
                       InfoLog |-> Append(@.InfoLog, "error_str")]]
              ELSE @,
     !.calls = @ \o <<"brw_compile_tcs", "_mesa_problem", "ralloc_free">>,
     !.success = FALSE]

(* Lines 161-173: the recompile diagnostics under perf_debug. *)
codegen_perf_debug(d, tcpv) ==
  IF d.perf_debug /\ tcpv # NULL
  THEN [d EXCEPT !.calls = IF tcpv.id \in d.compiled_once
                           THEN Append(@, "brw_tcs_debug_recompile") ELSE @,
                 !.compiled_once = @ \cup {tcpv.id}]
  ELSE d

codegen_success_not_installed(d, tcpv, key, c) ==
  LET d1 == codegen_perf_debug(
               [d EXCEPT !.calls = Append(@, "brw_compile_tcs")], tcpv)
      d2 == brw_alloc_stage_scratch(d1, compile_total_scratch(tcpv))
      d3 == brw_upload_cache(
               [d2 EXCEPT !.calls = @ \o <<"brw_alloc_stage_scratch",
                                           "brw_upload_cache">>], key,
               [nr_params |-> d.params.nr_params, param |-> d.params.param,
                total_scratch |-> compile_total_scratch(tcpv)])
  IN [d3 EXCEPT !.calls = Append(@, "ralloc_free"), !.success = TRUE,
                !.prog_offset = d.prog_offset, !.prog_data = d.prog_data]

(* Lines 161-189: the compile succeeded; the program is uploaded to the    *)
(* cache under key and installed in brw->tcs.base.                         *)
codegen_success(d, tcpv, key, c) ==
  LET d1 == codegen_perf_debug(
               [d EXCEPT !.calls = Append(@, "brw_compile_tcs")], tcpv)
      d2 == brw_alloc_stage_scratch(d1, compile_total_scratch(tcpv))
      d3 == brw_upload_cache(
               [d2 EXCEPT !.calls = @ \o <<"brw_alloc_stage_scratch",
                                           "brw_upload_cache">>], key,
               [nr_params |-> d.params.nr_params, param |-> d.params.param,
                total_scratch |-> compile_total_scratch(tcpv)])
  IN [d3 EXCEPT !.calls = Append(@, "ralloc_free"), !.success = TRUE]

(* brw_codegen_tcs_prog(brw, tcp, tep, key) with compiler outcome c. *)
brw_codegen_tcs_prog(d, tcpv, tepv, key, c) ==
  LET d0 == codegen_setup(d, tcpv, key)
  IN IF ~c.ok THEN codegen_failure(d0, tepv)
     ELSE codegen_success(d0, tcpv, key, c)

(* ------------------------- brw_upload_tcs_prog ------------------------ *)
(* The programs the state machine binds and links. *)
MainTcsPrograms ==
  {p \in TcsPrograms : /\ p.id = 1
                       /\ p.outputs_written = Slots
                       /\ p.patch_outputs_written = {}
                       /\ p.tcs_vertices_out = 1}

MainTesPrograms ==
  {e \in TesPrograms : /\ e.inputs_read = Slots
                       /\ e.patch_inputs_read = {}
                       /\ e.spacing = "TESS_SPACING_EQUAL"}

(* The driver state a handler works on, with the log of the calls it makes.*)
Drv ==
  [cache |-> cache, prog_offset |-> prog_offset, prog_data |-> prog_data,
   per_thread_scratch |-> per_thread_scratch,
   compiled_once |-> compiled_once, link |-> link,
   NewDriverState |-> NewDriverState, perf_debug |-> perf_debug,
   tcp |-> tcp, params |-> NoParams,
   calls |-> <<>>, success |-> TRUE, ret |-> TRUE,
   mem |-> "skipped", disk |-> "skipped",
   mode_assert_ok |-> TRUE, success_assert_ok |-> TRUE]

tcs_state_dirty_always(gl, drvflags) == TRUE

(* brw_state_dirty(brw, _NEW_TEXTURE,                                      *)
(*                 BRW_NEW_PATCH_PRIMITIVE | BRW_NEW_TESS_PROGRAMS)        *)
tcs_state_dirty(gl, drvflags) ==
  \/ gl \cap {"_NEW_TEXTURE"} # {}
  \/ drvflags \cap {"BRW_NEW_PATCH_PRIMITIVE", "BRW_NEW_TESS_PROGRAMS"} # {}

(* brw_disk_cache_upload_program: no program, or a miss, returns false; a  *)
(* hit uploads the stored binary under the key of the context state.       *)
brw_disk_cache_upload_program(d, key, hit) ==
  IF d.tcp = NULL \/ ~hit
  THEN [d EXCEPT !.disk = "miss"]
  ELSE [brw_upload_cache(brw_alloc_stage_scratch(d, 0), key,
                         [nr_params |-> 0, param |-> <<>>,
                          total_scratch |-> 0])
          EXCEPT !.disk = "hit"]

upload_after_miss_always_compiles(d, tepv, key, hit, c) ==
  LET dd == brw_disk_cache_upload_program(
               [d EXCEPT !.calls =
                           Append(@, "brw_disk_cache_upload_program")],
               key, hit)
      d1 == [dd EXCEPT !.tcp = IF @ # NULL
                       THEN [@ EXCEPT !.id = key.program_string_id]
                       ELSE @,
                !.calls = Append(@, "brw_codegen_tcs_prog")]
      r == brw_codegen_tcs_prog(d1, d1.tcp, tepv, key, c)
  IN [r EXCEPT !.success_assert_ok = r.success]

(* Lines 260-268: after the in-memory miss the disk cache is consulted,    *)
(* and only on its miss the program is compiled.                           *)
upload_after_miss(d, tepv, key, hit, c) ==
  LET dd == brw_disk_cache_upload_program(
               [d EXCEPT !.calls =
                           Append(@, "brw_disk_cache_upload_program")],
               key, hit)
      d1 == [dd EXCEPT !.tcp = IF @ # NULL
                       THEN [@ EXCEPT !.id = key.program_string_id]
                       ELSE @,
                !.calls = Append(@, "brw_codegen_tcs_prog")]
      r == brw_codegen_tcs_prog(d1, d1.tcp, tepv, key, c)
  IN IF dd.disk = "hit" THEN dd
     ELSE [r EXCEPT !.success_assert_ok = r.success]

(* brw_upload_tcs_prog(brw): garbage is the uninitialised key buffer, hit  *)
(* the disk cache's answer and c the compiler's outcome.                   *)
upload_tcs_prog(d, garbage, hit, c) ==
  IF ~tcs_state_dirty(NewGLState, d.NewDriverState)
  THEN d
  ELSE LET key == brw_tcs_populate_key(gen, patch_vertices, tex_state,
                                       d.tcp, tep, garbage)
           i == brw_search_cache(d.cache, key)
           d1 == [d EXCEPT !.calls = <<"brw_tcs_populate_key",
                                       "brw_search_cache">>]
       IN IF i # 0 THEN search_hit(d1, i)
          ELSE upload_after_miss([d1 EXCEPT !.mem = "miss"], tep, key,
                                 hit, c)

precompile_not_restored(d, prog, tes, garbage, c) ==
  LET key == brw_tcs_populate_default_key(gen, prog, tes, garbage)
      r == brw_codegen_tcs_prog(
              [d EXCEPT !.calls = <<"brw_tcs_populate_default_key",
                                    "brw_codegen_tcs_prog">>],
              prog, tes, key, c)
  IN [r EXCEPT !.ret = r.success]

(* brw_tcs_precompile(ctx, shader_prog, prog): tes is the TES linked in    *)
(* shader_prog, or NULL.                                                   *)
tcs_precompile(d, prog, tes, garbage, c) ==
  LET key == brw_tcs_populate_default_key(gen, prog, tes, garbage)
      r == brw_codegen_tcs_prog(
              [d EXCEPT !.calls = <<"brw_tcs_populate_default_key",
                                    "brw_codegen_tcs_prog">>],
              prog, tes, key, c)
  IN [r EXCEPT !.prog_offset = d.prog_offset, !.prog_data = d.prog_data,
               !.ret = r.success]

(* ------------------------------ actions ------------------------------- *)
KeyVars == <<keyA, keyB, dkey, tes_linked, kpc>>

(* The handler's result r becomes the driver state. *)
Commit(op, r, prog, tes) ==
  /\ cache' = r.cache
  /\ prog_offset' = r.prog_offset
  /\ prog_data' = r.prog_data
  /\ per_thread_scratch' = r.per_thread_scratch
  /\ compiled_once' = r.compiled_once
  /\ link' = r.link
  /\ NewDriverState' = r.NewDriverState
  /\ tcp' = r.tcp
  /\ last' = [op |-> op, calls |-> r.calls, success |-> r.success,
              ret |-> r.ret, mem |-> r.mem, disk |-> r.disk,
              mode_assert_ok |-> r.mode_assert_ok,
              success_assert_ok |-> r.success_assert_ok,
              prog |-> prog, tes |-> tes]
  /\ steps' = steps + 1
  /\ UNCHANGED <<gen, perf_debug, patch_vertices, tex_state, tep,
                 NewGLState, KeyVars>>

brw_upload_tcs_prog ==
  /\ steps < MaxOps
  /\ kpc = "off"
  /\ tep # NULL
  /\ \E garbage \in GarbageKeys, hit \in BOOLEAN, c \in CompileOutcomes :
       Commit("upload", upload_tcs_prog(Drv, garbage, hit, c), NULL, NULL)

brw_tcs_precompile ==
  /\ steps < MaxOps
  /\ kpc = "off"
  /\ \E prog \in MainTcsPrograms, tes \in MainTesPrograms \cup {NULL},
        garbage \in GarbageKeys, c \in CompileOutcomes :
       Commit("precompile", tcs_precompile(Drv, prog, tes, garbage, c),
              prog, tes)

IdleLast(op) ==
  [op |-> op, calls |-> <<>>, success |-> TRUE, ret |-> TRUE,
   mem |-> "skipped", disk |-> "skipped", mode_assert_ok |-> TRUE,
   success_assert_ok |-> TRUE, prog |-> NULL, tes |-> NULL]

EnvLast == IdleLast("env")

DrvVars == <<cache, prog_offset, prog_data, per_thread_scratch,
             compiled_once, link>>

(* The application binds tessellation programs. *)
BindPrograms ==
  /\ steps < MaxOps
  /\ kpc = "off"
  /\ \E t \in MainTcsPrograms \cup {NULL}, e \in MainTesPrograms :
       /\ <<t, e>> # <<tcp, tep>>
       /\ tcp' = t
       /\ tep' = e
  /\ NewDriverState' = NewDriverState \cup {"BRW_NEW_TESS_PROGRAMS"}
  /\ last' = EnvLast
  /\ steps' = steps + 1
  /\ UNCHANGED <<gen, perf_debug, patch_vertices, tex_state, NewGLState,
                 DrvVars, KeyVars>>

(* glPatchParameteri(GL_PATCH_VERTICES, n) *)
SetPatchVertices ==
  /\ steps < MaxOps
  /\ kpc = "off"
  /\ \E n \in 1..MaxPatchVertices :
       /\ n # patch_vertices
       /\ patch_vertices' = n
  /\ NewDriverState' = NewDriverState \cup {"BRW_NEW_PATCH_PRIMITIVE"}
  /\ last' = EnvLast
  /\ steps' = steps + 1
  /\ UNCHANGED <<gen, perf_debug, tcp, tep, tex_state, NewGLState,
                 DrvVars, KeyVars>>

(* A texture state change. *)
TextureChange ==
  /\ steps < MaxOps
  /\ kpc = "off"
  /\ \E t \in TexStates :
       /\ t # tex_state
       /\ tex_state' = t
  /\ NewGLState' = NewGLState \cup {"_NEW_TEXTURE"}
  /\ last' = EnvLast
  /\ steps' = steps + 1
  /\ UNCHANGED <<gen, perf_debug, tcp, tep, patch_vertices, NewDriverState,
                 DrvVars, KeyVars>>

(* brw_clear_dirty_bits at the end of a state upload. *)
ClearDirtyBits ==
  /\ steps < MaxOps
  /\ kpc = "off"
  /\ NewGLState \cup NewDriverState # {}
  /\ NewGLState' = {}
  /\ NewDriverState' = {}
  /\ last' = EnvLast
  /\ steps' = steps + 1
  /\ UNCHANGED <<gen, perf_debug, tcp, tep, patch_vertices, tex_state,
                 DrvVars, KeyVars>>

(* The driver state after context creation: nothing bound, an empty cache  *)
(* and every state flag dirty.                                             *)
InitDriver ==
  /\ cache = <<>>
  /\ prog_offset = 0
  /\ prog_data = 0
  /\ per_thread_scratch = 0
  /\ compiled_once = {}
  /\ link = [e \in MainTesPrograms |->
               [LinkStatus |-> "LINKING_SUCCESS", InfoLog |-> <<>>]]
  /\ last = IdleLast("init")
  /\ steps = 0

Init ==
  /\ gen \in Gens
  /\ perf_debug \in BOOLEAN
  /\ patch_vertices = 1
  /\ tex_state = TexDefault
  /\ tcp = NULL
  /\ tep = NULL
  /\ NewGLState = {"_NEW_TEXTURE"}
  /\ NewDriverState = {"BRW_NEW_PATCH_PRIMITIVE", "BRW_NEW_TESS_PROGRAMS",
                       "BRW_NEW_TCS_PROG_DATA"}
  /\ InitDriver
  /\ keyA = ZeroKey
  /\ keyB = ZeroKey
  /\ dkey = ZeroKey
  /\ tes_linked = FALSE
  /\ kpc = "off"

Next ==
  \/ brw_upload_tcs_prog
  \/ brw_tcs_precompile
  \/ BindPrograms
  \/ SetPatchVertices
  \/ TextureChange
  \/ ClearDirtyBits

Spec == Init /\ [][Next]_vars

(* ---------------- key derivation on arbitrary programs ---------------- *)
(* The key is derived twice from one context state, into two buffers with  *)
(* different prior contents and with a program upload in between, and then *)
(* the default key of the same TCS is derived.                             *)
InitKey ==
  /\ gen \in Gens
  /\ perf_debug = FALSE
  /\ patch_vertices \in 1..MaxPatchVertices
  /\ tex_state \in TexStates
  /\ tcp \in TcsPrograms \cup {NULL}
  /\ tep \in TesPrograms
  /\ NewGLState = {"_NEW_TEXTURE"}
  /\ NewDriverState = {"BRW_NEW_PATCH_PRIMITIVE", "BRW_NEW_TESS_PROGRAMS",
                       "BRW_NEW_TCS_PROG_DATA"}
  /\ InitDriver
  /\ keyA = GarbageKeyA
  /\ keyB = GarbageKeyB
  /\ dkey = GarbageKeyA
  /\ tes_linked = FALSE
  /\ kpc = "start"

CtxVars == <<gen, perf_debug, patch_vertices, tex_state, tcp, tep,
             NewGLState, last, steps>>

PopulateKeyA ==
  /\ kpc = "start"
  /\ keyA' = brw_tcs_populate_key(gen, patch_vertices, tex_state, tcp, tep,
                                  keyA)
  /\ kpc' = "A"
  /\ UNCHANGED <<CtxVars, NewDriverState, DrvVars, keyB, dkey, tes_linked>>

(* The program of keyA is uploaded and installed: the cache, prog_offset   *)
(* and prog_data change between the two derivations.                       *)
UploadBetween ==
  /\ kpc = "A"
  /\ LET r == brw_upload_cache(Drv, keyA,
                               [nr_params |-> 0, param |-> <<>>,
                                total_scratch |-> 0])
     IN /\ cache' = r.cache
        /\ prog_offset' = r.prog_offset
        /\ prog_data' = r.prog_data
        /\ NewDriverState' = r.NewDriverState
  /\ kpc' = "uploaded"
  /\ UNCHANGED <<CtxVars, per_thread_scratch, compiled_once, link, keyA, keyB, dkey,
                 tes_linked>>

PopulateKeyB ==
  /\ kpc = "uploaded"
  /\ keyB' = brw_tcs_populate_key(gen, patch_vertices, tex_state, tcp, tep,
                                  keyB)
  /\ kpc' = "B"
  /\ UNCHANGED <<CtxVars, NewDriverState, DrvVars, keyA, dkey, tes_linked>>

PopulateDefaultKey ==
  /\ kpc = "B"
  /\ tcp # NULL
  /\ \E linked \in BOOLEAN :
       /\ tes_linked' = linked
       /\ dkey' = brw_tcs_populate_default_key(
                     gen, tcp, IF linked THEN tep ELSE NULL, dkey)
  /\ kpc' = "default"
  /\ UNCHANGED <<CtxVars, NewDriverState, DrvVars, keyA, keyB>>

NextKey ==
  \/ PopulateKeyA
  \/ UploadBetween
  \/ PopulateKeyB
  \/ PopulateDefaultKey

SpecKey == InitKey /\ [][NextKey]_vars

(* ------------------------------ properties ---------------------------- *)
Range(f) == {f[x] : x \in DOMAIN f}

(* Position of the first call of name in a call log, 0 when absent. *)
Pos(calls, name) ==
  IF name \in Range(calls)
  THEN CHOOSE i \in 1..Len(calls) :
         calls[i] = name /\ \A j \in 1..(i - 1) : calls[j] # name
  ELSE 0

Count(calls, name) == Cardinality({i \in 1..Len(calls) : calls[i] = name})

(* One of _NEW_TEXTURE, BRW_NEW_PATCH_PRIMITIVE, BRW_NEW_TESS_PROGRAMS is  *)
(* flagged.                                                                *)
TcsDirty ==
  \/ "_NEW_TEXTURE" \in NewGLState
  \/ "BRW_NEW_PATCH_PRIMITIVE" \in NewDriverState
  \/ "BRW_NEW_TESS_PROGRAMS" \in NewDriverState

(* The key brw_tcs_populate_key derives from the current context state. *)
CurrentKey ==
  brw_tcs_populate_key(gen, patch_vertices, tex_state, tcp, tep, ZeroKey)

(* A handler of the driver ran in this step. *)
Ran(op) == last'.op = op /\ steps' = steps + 1

(* C1: after brw_upload_tcs_prog ran with a TES bound, one of the three    *)
(* flags dirty and no compile failure, prog_offset and prog_data are those *)
(* of a cache item stored under exactly the key brw_tcs_populate_key       *)
(* derives from the context state.                                         *)
C1_InstalledProgramMatchesKey ==
  (last.op = "upload" /\ TcsDirty /\ last.success) =>
     \E i \in 1..Len(cache) :
        /\ cache[i].key = CurrentKey
        /\ prog_offset = cache[i].offset
        /\ prog_data = i

C1_Witness ==
  /\ last.op = "upload"
  /\ TcsDirty
  /\ last.success
  /\ "brw_upload_cache" \in Range(last.calls)
  /\ Len(cache) = 2
  /\ cache[1].key # CurrentKey
  /\ prog_data = 2

(* C2: in brw_upload_tcs_prog the in-memory cache is searched first, the   *)
(* disk cache is consulted only after an in-memory miss, and the compiler  *)
(* (brw_codegen_tcs_prog, brw_compile_tcs, brw_upload_cache) runs only     *)
(* after both missed; a hit in either cache returns without compiling.     *)
C2_LookupOrder ==
  last.op = "upload" =>
    LET calls == last.calls
        compiling == {"brw_codegen_tcs_prog", "brw_compile_tcs",
                      "brw_upload_cache"}
    IN /\ last.mem # "skipped" =>
            /\ Pos(calls, "brw_tcs_populate_key") = 1
            /\ Pos(calls, "brw_search_cache") = 2
       /\ last.disk # "skipped" =>
            /\ last.mem = "miss"
            /\ Pos(calls, "brw_disk_cache_upload_program") = 3
       /\ Pos(calls, "brw_disk_cache_upload_program") # 0 =>
            last.disk # "skipped"
       /\ Range(calls) \cap compiling # {} =>
            /\ last.mem = "miss"
            /\ last.disk = "miss"
            /\ Pos(calls, "brw_codegen_tcs_prog") = 4
            /\ \A n \in {"brw_compile_tcs", "brw_upload_cache"} :
                 n \in Range(calls) => Pos(calls, n) > 4
       /\ (last.mem = "hit" \/ last.disk = "hit") =>
            Range(calls) \cap compiling = {}
       /\ last.mem = "hit" => Len(calls) = 2
       /\ last.disk = "hit" => Len(calls) = 3

C2_Witness ==
  /\ last.op = "upload"
  /\ last.mem = "miss"
  /\ last.disk = "hit"
  /\ Len(cache) = 2

(* C3: keys derived from the same semantic program state are identical,    *)
(* whatever the key buffer held before and whatever prog_offset, prog_data *)
(* and the cache are at the time of the call.                              *)
C3_KeyIsFunctionOfSemanticState ==
  kpc \in {"B", "default"} => keyA = keyB

C3_Witness ==
  /\ kpc = "B"
  /\ tcp # NULL
  /\ gen = 8
  /\ Len(cache) = 1
  /\ prog_data = 1
  /\ keyA = keyB
  /\ keyA.program_string_id = tcp.id

(* C4: with no TCS bound the key has program_string_id 0, an all-zero      *)
(* sampler key, input_vertices equal to patch_vertices on every            *)
(* generation, and outputs_written / patch_outputs_written equal to the    *)
(* TES's inputs_read / patch_inputs_read; with a TCS bound input_vertices  *)
(* is patch_vertices on gen < 8 and 0 otherwise.                           *)
C4_PassthroughKey ==
  kpc \in {"A", "uploaded", "B", "default"} =>
    /\ tcp = NULL =>
         /\ keyA.program_string_id = 0
         /\ keyA.tex = TexZero
         /\ keyA.input_vertices = patch_vertices
         /\ keyA.outputs_written = tep.inputs_read
         /\ keyA.patch_outputs_written = tep.patch_inputs_read
    /\ tcp # NULL =>
         keyA.input_vertices = IF gen < 8 THEN patch_vertices ELSE 0

C4_Witness ==
  /\ kpc = "A"
  /\ tcp = NULL
  /\ gen = 9
  /\ tep.inputs_read # {}
  /\ keyA.input_vertices = MaxPatchVertices

(* C5: every passthrough program in the cache has exactly 8 params: for    *)
(* GL_QUADS param[7..4] = outer X, Y, Z, W, param[3] = inner X, param[2] = *)
(* inner Y; for GL_TRIANGLES param[7..5] = outer X, Y, Z, param[4] =       *)
(* inner X; for GL_ISOLINES param[7] = outer Y, param[6] = outer X; every  *)
(* other slot is BRW_PARAM_BUILTIN_ZERO; and the GL_ISOLINES assertion     *)
(* never fails.                                                            *)
C5_ExpectedParams(mode) ==
  IF mode = GL_QUADS
  THEN (0 :> 0) @@ (1 :> 0) @@ (2 :> 38) @@ (3 :> 37) @@
       (4 :> 36) @@ (5 :> 35) @@ (6 :> 34) @@ (7 :> 33)
  ELSE IF mode = GL_TRIANGLES
  THEN (0 :> 0) @@ (1 :> 0) @@ (2 :> 0) @@ (3 :> 0) @@
       (4 :> 37) @@ (5 :> 35) @@ (6 :> 34) @@ (7 :> 33)
  ELSE (0 :> 0) @@ (1 :> 0) @@ (2 :> 0) @@ (3 :> 0) @@
       (4 :> 0) @@ (5 :> 0) @@ (6 :> 33) @@ (7 :> 34)

C5_PassthroughParams ==
  /\ last.mode_assert_ok
  /\ \A i \in 1..Len(cache) :
       cache[i].key.program_string_id = 0 =>
         /\ cache[i].key.tes_primitive_mode \in
              {GL_QUADS, GL_TRIANGLES, GL_ISOLINES}
         /\ cache[i].aux.nr_params = 8
         /\ cache[i].aux.param =
              C5_ExpectedParams(cache[i].key.tes_primitive_mode)

C5_Witness ==
  /\ Len(cache) = 2
  /\ cache[1].key.program_string_id = 0
  /\ cache[2].key.program_string_id = 0
  /\ cache[1].key.tes_primitive_mode = GL_QUADS
  /\ cache[2].key.tes_primitive_mode = GL_ISOLINES
  /\ "brw_nir_create_passthrough_tcs" \in Range(last.calls)

(* C6: brw_upload_tcs_prog with none of the three flags dirty makes no     *)
(* call (no key, no search, no compile) and leaves prog_offset, prog_data, *)
(* the cache, the bound programs and all other state unchanged.            *)
C6_CleanUploadIsNoOp ==
  [][(Ran("upload") /\ ~TcsDirty) =>
       /\ last'.calls = <<>>
       /\ UNCHANGED <<prog_offset, prog_data, cache, tcp, tep, link,
                      per_thread_scratch, compiled_once, NewGLState,
                      NewDriverState, patch_vertices, tex_state>>]_vars

C6_Witness ==
  /\ last.op = "upload"
  /\ ~TcsDirty
  /\ last.calls = <<>>
  /\ Len(cache) = 1
  /\ cache[1].key = CurrentKey
  /\ prog_data = 0

(* C7: the draw-time key's outputs_written is the union of the TES's       *)
(* inputs_read and the bound TCS's outputs_written, patch_outputs_written  *)
(* the union of the TES's patch_inputs_read and the TCS's                  *)
(* patch_outputs_written; in the draw-time key and in the default key      *)
(* quads_workaround is set exactly when gen < 9, the TES primitive mode is *)
(* GL_QUADS and the TES spacing is TESS_SPACING_EQUAL, and with no TES     *)
(* linked the default key has GL_TRIANGLES and no workaround.              *)
C7_KeyOutputsAndQuadsWorkaround ==
  LET wa == /\ gen < 9
            /\ tep.primitive_mode = GL_QUADS
            /\ tep.spacing = "TESS_SPACING_EQUAL"
  IN /\ kpc \in {"A", "uploaded", "B", "default"} =>
          /\ keyA.outputs_written =
               tep.inputs_read \cup
                 (IF tcp # NULL THEN tcp.outputs_written ELSE {})
          /\ keyA.patch_outputs_written =
               tep.patch_inputs_read \cup
                 (IF tcp # NULL THEN tcp.patch_outputs_written ELSE {})
          /\ keyA.quads_workaround = wa
     /\ kpc = "default" =>
          /\ tes_linked =>
               /\ dkey.quads_workaround = wa
               /\ dkey.tes_primitive_mode = tep.primitive_mode
          /\ ~tes_linked =>
               /\ dkey.quads_workaround = FALSE
               /\ dkey.tes_primitive_mode = GL_TRIANGLES

C7_Witness ==
  /\ kpc = "default"
  /\ tes_linked
  /\ dkey.quads_workaround
  /\ gen = 8
  /\ tep.inputs_read # {}
  /\ tcp.outputs_written = {}
  /\ keyA.outputs_written = tep.inputs_read

(* The cache gained exactly one item, stored under the default key of the  *)
(* precompiled program.                                                    *)
C8_NewDefaultKeyEntry ==
  /\ Len(cache') = Len(cache) + 1
  /\ SubSeq(cache', 1, Len(cache)) = cache
  /\ cache'[Len(cache')].key =
       brw_tcs_populate_default_key(gen, last'.prog, last'.tes, ZeroKey)

C9_CompileFailure ==
  [][((Ran("upload") \/ Ran("precompile"))
        /\ "brw_compile_tcs" \in Range(last'.calls)) =>
       LET calls == last'.calls
           tes == IF last'.op = "upload" THEN tep ELSE last'.tes
       IN /\ Count(calls, "ralloc_context") = 1
          /\ Count(calls, "ralloc_free") = 1
          /\ calls[Len(calls)] = "ralloc_free"
          /\ ~last'.success =>
               /\ last'.op = "precompile" => ~last'.ret
               /\ "brw_upload_cache" \notin Range(calls)
               /\ cache' = cache
               /\ prog_offset' = prog_offset
               /\ prog_data' = prog_data
               /\ tes # NULL =>
                    link' = [link EXCEPT ![tes] =
                               [LinkStatus |-> "LINKING_FAILURE",
                                InfoLog |-> Append(link[tes].InfoLog,
                                                   "error_str")]]
               /\ tes = NULL => link' = link
          /\ last'.success => link' = link]_vars

C9_Witness ==
  /\ last.op = "upload"
  /\ ~last.success
  /\ "brw_compile_tcs" \in Range(last.calls)
  /\ link[tep].LinkStatus = "LINKING_FAILURE"
  /\ link[tep].InfoLog = <<"error_str">>
  /\ Len(cache) = 1
  /\ prog_data = 1

====
